---- MODULE Spec2Model ----
(***************************************************************************)
(* A model of src/src/intensity_matrix.py: the IntensityMatrix object (its *)
(* validated properties and estimator methods) and the static array        *)
(* helpers correct_baseline and polynomial_correct_negative_values.        *)
(*                                                                         *)
(* Python values are records tagged by "kind".  A raised exception is the  *)
(* name of its class; "none" means the call returned.                      *)
(***************************************************************************)
EXTENDS Integers, Sequences, FiniteSets, TLC

VARIABLES
    \* ---- the IntensityMatrix object --------------------------------------
    constructed,            \* "none" | "ok" | "failed": __init__ not run / returned / raised
    intensity_matrix,       \* self._intensity_matrix
    unique_mzs,             \* self._unique_mzs
    spectra_metadata,       \* self._spectra_metadata
    noise_factor,           \* self.noise_factor
    abundance_threshold,    \* self.abundance_threshold
    last_call,              \* [op, exc, ret] of the most recent call on the object
    empty_truth_raises,     \* numpy build: bool() of an empty array raises (>= 2.2) or is False
    \* ---- correct_baseline -------------------------------------------------
    bl_pc,                  \* "idle" | "call" | "loop" | "loop_raised" | "smooth" |
                            \* "returned" | "raised"
    n_len,                  \* len(intensity_array)
    chunks,                 \* parameter chunks
    low_chunk,              \* parameter low_chunk
    chunk_size,             \* local chunk_size (0 before it is computed)
    i_chunk,                \* loop variable i
    baseline_values,        \* local baseline_values: the entries written so far, by index
                            \* from 0; an index outside its domain holds the 0 of zeros_like
    \* ---- polynomial_correct_negative_values --------------------------------
    rp_pc,                  \* "call" | "loop" | "returned" | "raised" | "idle"
    array,                  \* the array argument, mutated in place
    array_in,               \* the array as it was passed in
    window_size,            \* parameter window_size
    degree,                 \* parameter degree
    clusters,               \* local clusters
    cluster_i,              \* position of the for loop over clusters
    window                  \* what the last pass of the loop over clusters read and wrote

objVars == <<constructed, intensity_matrix, unique_mzs, spectra_metadata,
             noise_factor, abundance_threshold, last_call, empty_truth_raises>>
blVars == <<bl_pc, n_len, chunks, low_chunk, chunk_size, i_chunk, baseline_values>>
rpVars == <<rp_pc, array, array_in, window_size, degree, clusters, cluster_i, window>>
vars == <<objVars, blVars, rpVars>>

(***************************************************************************)
(* Bounds of the model.                                                    *)
(***************************************************************************)
MaxDim == 2             \* SpecObj: rows, columns and list lengths range over 0..MaxDim
MaxCols == 21           \* SpecThreshold: columns of the matrix
MaxNfCols == 27         \* SpecNoise: columns of the matrix
MaxWideLen == 3010      \* SpecChunk: profile lengths
MaxChunks == 5          \* SpecChunk, SpecBaseline: parameter chunks
MaxProfileLen == 40     \* SpecBaseline: profile lengths
MaxLowChunk == 9        \* SpecBaseline: parameter low_chunk
MaxLen == 5             \* SpecRepair: array lengths
MaxWindow == 2          \* SpecRepair: parameter window_size

Min(a, b) == IF a < b THEN a ELSE b
Max(a, b) == IF a > b THEN a ELSE b
Abs(a) == IF a < 0 THEN -a ELSE a

RECURSIVE SumSeq(_)
SumSeq(s) == IF s = <<>> THEN 0 ELSE Head(s) + SumSeq(Tail(s))

(***************************************************************************)
(* Python values.                                                          *)
(***************************************************************************)
None == [kind |-> "None"]
Unset == [kind |-> "unset"]
PyList(k) == [kind |-> "list", len |-> k]
PyTuple(k) == [kind |-> "tuple", len |-> k]
\* A numpy array: shape is the tuple of its dimensions; data is the sequence
\* of its rows when it has two dimensions and <<>> otherwise.
NdArray(shape, dtype, data) ==
    [kind |-> "ndarray", shape |-> shape, dtype |-> dtype, data |-> data]
NestedList == [kind |-> "list", len |-> 2]

Call(op, exc, ret) == [op |-> op, exc |-> exc, ret |-> ret]

\* len(value): <<exception, length>>
PyLen(value) ==
    CASE value.kind \in {"list", "tuple"} -> <<"none", value.len>>
      [] value.kind = "ndarray" /\ Len(value.shape) > 0 -> <<"none", value.shape[1]>>
      [] OTHER -> <<"TypeError", 0>>

\* arr.shape[axis] (axis counted from 0): <<exception, extent>>
ShapeAt(arr, axis) ==
    IF axis + 1 <= Len(arr.shape) THEN <<"none", arr.shape[axis + 1]>>
    ELSE <<"IndexError", 0>>

(***************************************************************************)
(* The property setters.  Each yields the exception it raises, "none" when *)
(* the value is stored.                                                    *)
(***************************************************************************)
IntensityMatrixSetter(value) ==
    IF value.kind = "ndarray" THEN "none" ELSE "ValueError"

\* The check shared by the two list setters, against axis 0 or 1 of the
\* stored matrix.
ListSetter(matrix, value, axis) ==
    LET l == PyLen(value)
        d == ShapeAt(matrix, axis)
    IN  IF l[1] # "none" THEN l[1]
        ELSE IF d[1] # "none" THEN d[1]
        ELSE IF ~(l[2] = d[2]) THEN "ValueError"
        ELSE IF ~(value.kind = "list") THEN "ValueError"
        ELSE "none"

UniqueMzsSetter(matrix, value) == ListSetter(matrix, value, 0)

SpectraMetadataSetter(matrix, value) == ListSetter(matrix, value, 1)

\* __init__: the three assignments in order; the first exception ends it.
InitOutcome(m, u, s) ==
    IF IntensityMatrixSetter(m) # "none" THEN IntensityMatrixSetter(m)
    ELSE IF UniqueMzsSetter(m, u) # "none" THEN UniqueMzsSetter(m, u)
    ELSE SpectraMetadataSetter(m, s)

(***************************************************************************)
(* calculate_threshold                                                     *)
(***************************************************************************)
NumSegments == 10

\* np.array_split(intensity_matrix, 10, axis=1): segment s (from 0) of a matrix
\* of C columns; the first C % 10 segments hold one column more.
SegmentWidth(C, s) == (C \div NumSegments) + (IF s < C % NumSegments THEN 1 ELSE 0)

SegmentStart(C, s) == s * (C \div NumSegments) + Min(s, C % NumSegments)

\* The columns of row r (from 1) of the matrix that fall in segment s.
SegmentRow(matrix, r, s) ==
    SubSeq(matrix.data[r],
           SegmentStart(matrix.shape[2], s) + 1,
           SegmentStart(matrix.shape[2], s) + SegmentWidth(matrix.shape[2], s))

\* bool(a) of a boolean numpy array a: <<exception, truth value>>
ArrayTruth(a, emptyRaises) ==
    IF Len(a) > 1 THEN <<"ValueError", FALSE>>
    ELSE IF Len(a) = 1 THEN <<"none", a[1]>>
    ELSE IF emptyRaises THEN <<"ValueError", FALSE>>
    ELSE <<"none", FALSE>>

\* transitions = (row[:-1] == 0 & row[1:] > 0), which Python reads as
\*     (row[:-1] == t) and (t > 0)    with t = 0 & row[1:]
\* followed by np.sum(transitions): <<exception, num_transitions>>
NumTransitions(row, dtype, emptyRaises) ==
    LET w1 == Max(Len(row) - 1, 0)
        t == [j \in 1..w1 |-> 0]                  \* 0 & x is 0 for every integer x
        first == [j \in 1..w1 |-> row[j] = t[j]]  \* row[:-1] == t
        second == [j \in 1..w1 |-> t[j] > 0]      \* t > 0
        truth == ArrayTruth(first, emptyRaises)
        transitions == IF truth[2] THEN second ELSE first
    IN  IF dtype = "float" THEN <<"TypeError", 0>>  \* 0 & float array: no such ufunc loop
        ELSE IF truth[1] # "none" THEN <<truth[1], 0>>
        ELSE <<"none", Cardinality({j \in 1..w1 : transitions[j]})>>

\* One pass of the inner loop body, for row r (from 1) and segment s (from 0):
\* <<exception, num_transitions, segment_length>>
ThresholdEntry(matrix, self_len, r, s, emptyRaises) ==
    LET nt == NumTransitions(SegmentRow(matrix, r, s), matrix.dtype, emptyRaises)
    IN  IF nt[1] # "none" THEN <<nt[1], 0, 0>>
        ELSE IF r > self_len THEN <<"IndexError", 0, 0>>   \* threshold_values[row_idx, seg_idx]
        ELSE <<"none", nt[2], SegmentWidth(matrix.shape[2], s)>>

\* The positive values of the matrix: intensity_matrix[intensity_matrix > 0]
PositiveValues(matrix) ==
    {v \in {matrix.data[r][c] : r \in 1..matrix.shape[1], c \in 1..matrix.shape[2]} : v > 0}

SetMin(S) == CHOOSE v \in S : \A u \in S : v <= u

\* calculate_threshold(self, intensity_matrix) for a matrix of two dimensions:
\* [exc, ret].  An entry of ret.fraction is <<num_transitions, segment_length>>,
\* standing for sqrt(num_transitions / segment_length) * min_value (nan when the
\* segment is empty), or "uninitialized" for a row of np.empty never written.
CalculateThresholdResult(matrix, self_len, emptyRaises) ==
    LET R == matrix.shape[1]
        entry == [r \in 1..R |-> [s \in 0..(NumSegments - 1) |->
                    ThresholdEntry(matrix, self_len, r, s, emptyRaises)]]
        order == {<<s, r>> : s \in 0..(NumSegments - 1), r \in 1..R}
        Before(a, b) == a[1] < b[1] \/ (a[1] = b[1] /\ a[2] < b[2])
        bad == {e \in order : entry[e[2]][e[1]][1] # "none"}
        firstBad == CHOOSE e \in bad : \A f \in bad : f = e \/ Before(e, f)
    IN  IF PositiveValues(matrix) = {} THEN [exc |-> "ValueError", ret |-> None]
        ELSE IF bad # {} THEN [exc |-> entry[firstBad[2]][firstBad[1]][1], ret |-> None]
        ELSE [exc |-> "none",
              ret |-> [min_value |-> SetMin(PositiveValues(matrix)),
                       fraction |->
                          [r \in 1..self_len |->
                             [s \in 0..(NumSegments - 1) |->
                                IF r <= R THEN <<entry[r][s][2], entry[r][s][3]>>
                                ELSE <<"uninitialized">>]]]]

(***************************************************************************)
(* calculate_noise_factor                                                  *)
(***************************************************************************)
WindowScans == 13
MinCrossings == 6

\* np.vstack takes one positional argument, the tuple of arrays to stack.
Vstack(args) == IF Len(args) > 1 THEN "TypeError" ELSE "none"

\* sum_row, and the matrix with sum_row appended as its last row.
SumRow(matrix) ==
    [c \in 1..matrix.shape[2] |-> SumSeq([r \in 1..matrix.shape[1] |-> matrix.data[r][c]])]

WithTic(matrix) == Append(matrix.data, SumRow(matrix))

\* count_crossings(row, avg), with avg = sum(row) / len(row) kept exact:
\* row[i] < avg  iff  row[i] * len(row) < sum(row).
CountCrossings(row) ==
    LET n == Len(row)
        total == SumSeq(row)
        Below(j) == row[j] * n < total
        Above(j) == row[j] * n > total
    IN  Cardinality({j \in 1..(n - 1) :
            (Below(j) /\ Above(j + 1)) \/ (Above(j) /\ Below(j + 1))})

\* The rows (by index in the stacked matrix) that segment i (from 0) keeps:
\* no zero in the window and more than 6 crossings of the row's mean.
SurvivingRows(rows, i) ==
    {r \in 1..Len(rows) :
        LET seg == SubSeq(rows[r], i * WindowScans + 1, (i + 1) * WindowScans)
        IN  /\ \A j \in 1..WindowScans : seg[j] # 0
            /\ CountCrossings(seg) > MinCrossings}

\* The statements after the vstack call.  The return sits inside the loop over
\* segments, so the loop ends in its first pass; calculate_row_nf is called on
\* the class with the row alone, which leaves its parameter row unfilled.
NoiseFactorAfterVstack(rows, C) ==
    LET num_segments == C \div WindowScans
    IN  IF num_segments = 0 THEN [exc |-> "none", ret |-> None]
        ELSE IF SurvivingRows(rows, 0) # {} THEN [exc |-> "TypeError", ret |-> None]
        ELSE [exc |-> "none", ret |-> [median_of |-> {}]]     \* np.median([[]]): nan

\* calculate_noise_factor(self, intensity_matrix): [exc, ret]
CalculateNoiseFactorResult(matrix) ==
    IF Vstack(<<matrix.data, SumRow(matrix)>>) # "none"
    THEN [exc |-> Vstack(<<matrix.data, SumRow(matrix)>>), ret |-> None]
    ELSE NoiseFactorAfterVstack(WithTic(matrix), matrix.shape[2])

(***************************************************************************)
(* calculate_sharpness                                                     *)
(***************************************************************************)
\* row[k] for k >= 0
Subscript(row, k) == IF k < Len(row) THEN "none" ELSE "IndexError"

\* (row[max_idx] - row[end_idx]) / (abs(max_idx - end_idx) * self.noise_factor * ...)
CalculateSharpnessResult(nf, row, max_idx, end_idx) ==
    IF Subscript(row, max_idx) # "none" THEN [exc |-> "IndexError", ret |-> None]
    ELSE IF Subscript(row, end_idx) # "none" THEN [exc |-> "IndexError", ret |-> None]
    ELSE IF nf = None THEN [exc |-> "TypeError", ret |-> None]    \* int * None
    ELSE [exc |-> "none", ret |-> [sharpness_with |-> nf]]

(***************************************************************************)
(* Inputs of the object's specifications.                                  *)
(***************************************************************************)
DTypes == {"int", "float"}

\* Rows of C columns: all 0; all 1; 0, 1, 0, 1, ...; 1, 3, 1, 3, ...; and 1 over
\* the first 13 columns followed by 1, 3, 1, 3, ...
Patterns == {"zeros", "ones", "alt"}

NfPatterns == {"zeros", "ones", "osc", "late"}

PatternRow(C, p) ==
    [c \in 1..C |-> CASE p = "zeros" -> 0
                      [] p = "ones" -> 1
                      [] p = "alt" -> (c - 1) % 2
                      [] p = "osc" -> 1 + 2 * ((c - 1) % 2)
                      [] OTHER -> IF c <= WindowScans THEN 1 ELSE 1 + 2 * ((c - 1) % 2)]

PatternMatrix(R, C, dtype, p) ==
    NdArray(<<R, C>>, dtype, [r \in 1..R |-> PatternRow(C, p)])

\* What a caller may pass as intensity_matrix: a list of lists, and arrays of
\* one, two and three dimensions.
ObjMatrices ==
    {NestedList}
    \cup {NdArray(<<k>>, "float", <<>>) : k \in 0..MaxDim}
    \cup {NdArray(<<r, c, 1>>, "float", <<>>) : r \in 1..MaxDim, c \in 1..MaxDim}
    \cup {PatternMatrix(r, c, d, p) : r \in 0..MaxDim, c \in 0..MaxDim, d \in DTypes, p \in Patterns}

\* What a caller may pass as unique_mzs or spectra_metadata.
ObjLists ==
    {PyList(k) : k \in 0..MaxDim} \cup {PyTuple(k) : k \in 0..MaxDim}

SharpnessRows == {<<4>>, <<4, 1>>}

NoWindow == [cluster |-> 0]

IdleBaseline ==
    /\ bl_pc = "idle" /\ n_len = 0 /\ chunks = 1 /\ low_chunk = 1
    /\ chunk_size = 0 /\ i_chunk = 0 /\ baseline_values = <<>>

IdleRepair ==
    /\ rp_pc = "idle" /\ array = <<>> /\ array_in = <<>> /\ window_size = 0
    /\ degree = 0 /\ clusters = <<>> /\ cluster_i = 0 /\ window = NoWindow

(***************************************************************************)
(* The object's operations.                                                *)
(***************************************************************************)
\* IntensityMatrix(m, u, s)
Construct(m, u, s) ==
    /\ constructed = "none"
    /\ IF InitOutcome(m, u, s) = "none"
       THEN /\ constructed' = "ok"
            /\ intensity_matrix' = m
            /\ unique_mzs' = u
            /\ spectra_metadata' = s
            /\ noise_factor' = None
            /\ abundance_threshold' = None
       ELSE /\ constructed' = "failed"
            /\ UNCHANGED <<intensity_matrix, unique_mzs, spectra_metadata,
                           noise_factor, abundance_threshold>>
    /\ last_call' = Call("__init__", InitOutcome(m, u, s), [m |-> m, u |-> u, s |-> s])
    /\ UNCHANGED <<empty_truth_raises, blVars, rpVars>>

\* obj.intensity_matrix = value
SetIntensityMatrix(value) ==
    /\ constructed = "ok"
    /\ intensity_matrix' =
          IF IntensityMatrixSetter(value) = "none" THEN value ELSE intensity_matrix
    /\ last_call' = Call("intensity_matrix", IntensityMatrixSetter(value), None)
    /\ UNCHANGED <<constructed, unique_mzs, spectra_metadata, noise_factor,
                   abundance_threshold, empty_truth_raises, blVars, rpVars>>

\* obj.unique_mzs = value
SetUniqueMzs(value) ==
    /\ constructed = "ok"
    /\ unique_mzs' =
          IF UniqueMzsSetter(intensity_matrix, value) = "none" THEN value ELSE unique_mzs
    /\ last_call' = Call("unique_mzs", UniqueMzsSetter(intensity_matrix, value), None)
    /\ UNCHANGED <<constructed, intensity_matrix, spectra_metadata, noise_factor,
                   abundance_threshold, empty_truth_raises, blVars, rpVars>>

\* obj.spectra_metadata = value
SetSpectraMetadata(value) ==
    /\ constructed = "ok"
    /\ spectra_metadata' =
          IF SpectraMetadataSetter(intensity_matrix, value) = "none"
          THEN value ELSE spectra_metadata
    /\ last_call' = Call("spectra_metadata", SpectraMetadataSetter(intensity_matrix, value), None)
    /\ UNCHANGED <<constructed, intensity_matrix, unique_mzs, noise_factor,
                   abundance_threshold, empty_truth_raises, blVars, rpVars>>

\* obj.calculate_threshold(obj.intensity_matrix); the method assigns no attribute.
CalculateThreshold ==
    /\ constructed = "ok"
    /\ Len(intensity_matrix.shape) = 2
    /\ LET res == CalculateThresholdResult(intensity_matrix, unique_mzs.len, empty_truth_raises)
       IN  last_call' = Call("calculate_threshold", res.exc, res.ret)
    /\ UNCHANGED <<constructed, intensity_matrix, unique_mzs, spectra_metadata, noise_factor,
                   abundance_threshold, empty_truth_raises, blVars, rpVars>>

\* obj.calculate_noise_factor(obj.intensity_matrix); the method assigns no attribute.
CalculateNoiseFactor ==
    /\ constructed = "ok"
    /\ Len(intensity_matrix.shape) = 2
    /\ LET res == CalculateNoiseFactorResult(intensity_matrix)
       IN  last_call' = Call("calculate_noise_factor", res.exc, res.ret)
    /\ UNCHANGED <<constructed, intensity_matrix, unique_mzs, spectra_metadata, noise_factor,
                   abundance_threshold, empty_truth_raises, blVars, rpVars>>

\* obj.calculate_sharpness(row, max_idx, end_idx)
CalculateSharpness(row, max_idx, end_idx) ==
    /\ constructed = "ok"
    /\ LET res == CalculateSharpnessResult(noise_factor, row, max_idx, end_idx)
       IN  last_call' = Call("calculate_sharpness", res.exc, res.ret)
    /\ UNCHANGED <<constructed, intensity_matrix, unique_mzs, spectra_metadata, noise_factor,
                   abundance_threshold, empty_truth_raises, blVars, rpVars>>

InitObj ==
    /\ constructed = "none" /\ intensity_matrix = Unset /\ unique_mzs = Unset
    /\ spectra_metadata = Unset /\ noise_factor = Unset /\ abundance_threshold = Unset
    /\ last_call = Call("none", "none", None)
    /\ empty_truth_raises \in BOOLEAN
    /\ IdleBaseline /\ IdleRepair

NextObj ==
    \/ \E m \in ObjMatrices, u \in ObjLists, s \in ObjLists : Construct(m, u, s)
    \/ \E value \in ObjMatrices : SetIntensityMatrix(value)
    \/ \E value \in ObjLists : SetUniqueMzs(value)
    \/ \E value \in ObjLists : SetSpectraMetadata(value)
    \/ CalculateThreshold
    \/ CalculateNoiseFactor
    \/ \E row \in SharpnessRows, max_idx \in 0..2, end_idx \in 0..2 :
          CalculateSharpness(row, max_idx, end_idx)

SpecObj == InitObj /\ [][NextObj]_vars

(***************************************************************************)
(* calculate_threshold and calculate_noise_factor on their own: the object *)
(* has been constructed around the matrix, and the estimator is called on  *)
(* that matrix.                                                            *)
(***************************************************************************)
MaxRows == 2

\* A matrix of zeros but for cell a, which holds 2, and cell b, which holds 1
\* (<<0, 0>> is no cell).
SpikeMatrix(R, C, dtype, a, b) ==
    NdArray(<<R, C>>, dtype,
            [r \in 1..R |-> [c \in 1..C |->
                IF <<r, c>> = b THEN 1 ELSE IF <<r, c>> = a THEN 2 ELSE 0]])

CellBefore(a, b) == a[1] < b[1] \/ (a[1] = b[1] /\ a[2] <= b[2])

Constructed(m) ==
    /\ constructed = "ok"
    /\ intensity_matrix = m
    /\ unique_mzs = PyList(m.shape[1])
    /\ spectra_metadata = PyList(m.shape[2])
    /\ noise_factor = None
    /\ abundance_threshold = None
    /\ last_call = Call("__init__", "none",
                        [m |-> m, u |-> PyList(m.shape[1]), s |-> PyList(m.shape[2])])

InitThreshold ==
    /\ \E R \in 1..MaxRows, C \in 0..MaxCols, d \in DTypes :
         \E a \in (1..R) \X (1..C) \cup {<<0, 0>>}, b \in (1..R) \X (1..C) \cup {<<0, 0>>} :
            /\ CellBefore(a, b)
            /\ Constructed(SpikeMatrix(R, C, d, a, b))
    /\ empty_truth_raises \in BOOLEAN
    /\ IdleBaseline /\ IdleRepair

SpecThreshold == InitThreshold /\ [][CalculateThreshold]_vars

InitNoise ==
    /\ \E R \in 1..MaxRows, C \in 0..MaxNfCols, d \in DTypes :
         \E ps \in [1..R -> NfPatterns] :
            Constructed(NdArray(<<R, C>>, d, [r \in 1..R |-> PatternRow(C, ps[r])]))
    /\ empty_truth_raises = FALSE
    /\ IdleBaseline /\ IdleRepair

SpecNoise == InitNoise /\ [][CalculateNoiseFactor]_vars

(***************************************************************************)
(* Claims about the object.                                                *)
(***************************************************************************)
\* C1: once the object is constructed, and whatever is assigned to its three
\* properties afterwards, the stored unique_mzs is as long as the stored matrix
\* has rows and the stored spectra_metadata as long as it has columns.
C1_LengthsMatchShape ==
    constructed = "ok" =>
        /\ ShapeAt(intensity_matrix, 0) = <<"none", unique_mzs.len>>
        /\ ShapeAt(intensity_matrix, 1) = <<"none", spectra_metadata.len>>

\* The cases in which C2 says construction fails.
InvalidArguments(m, u, s) ==
    \/ m.kind # "ndarray"
    \/ Len(m.shape) # 2
    \/ u.kind # "list"
    \/ s.kind # "list"
    \/ u.len # m.shape[1]
    \/ s.len # m.shape[2]

\* C2: construction with a matrix that is no array of two dimensions, with a
\* unique_mzs or spectra_metadata that is no list, or with one whose length is
\* not the row (column) count, raises ValueError and yields no object.
C2_InvalidArgumentsRaiseValueError ==
    (last_call.op = "__init__"
        /\ InvalidArguments(last_call.ret.m, last_call.ret.u, last_call.ret.s))
    => (last_call.exc = "ValueError" /\ constructed = "failed")

\* C3: noise_factor and abundance_threshold are None when __init__ returns, and
\* each holds its estimator's result once that estimator has returned.
C3_EstimatorsPopulateFields ==
    /\ (last_call.op = "__init__" /\ last_call.exc = "none")
          => (noise_factor = None /\ abundance_threshold = None)
    /\ (last_call.op = "calculate_noise_factor" /\ last_call.exc = "none")
          => noise_factor = last_call.ret
    /\ (last_call.op = "calculate_threshold" /\ last_call.exc = "none")
          => abundance_threshold = last_call.ret

\* The transitions C8 counts in a segment row: adjacent pairs inside it whose
\* left sample is 0 and whose right sample is above 0.
ZeroToPositive(row) ==
    Cardinality({j \in 1..(Len(row) - 1) : row[j] = 0 /\ row[j + 1] > 0})

\* C8: on a matrix with a positive value calculate_threshold returns, and every
\* entry's transition fraction is the count of zero-to-positive pairs inside the
\* segment over the segment's column count.
C8_TransitionFraction ==
    (last_call.op = "calculate_threshold" /\ PositiveValues(intensity_matrix) # {})
    => /\ last_call.exc = "none"
       /\ \A r \in 1..intensity_matrix.shape[1], s \in 0..(NumSegments - 1) :
            last_call.ret.fraction[r][s] =
                <<ZeroToPositive(SegmentRow(intensity_matrix, r, s)),
                  SegmentWidth(intensity_matrix.shape[2], s)>>

\* The per-row noise figures C9 takes the median of: one for every row that
\* survives the filters in every full window.
AllWindowFigures(matrix) ==
    {<<i, r>> \in (0..(matrix.shape[2] \div WindowScans - 1)) \X (1..(matrix.shape[1] + 1)) :
        r \in SurvivingRows(WithTic(matrix), i)}

\* C9: calculate_noise_factor returns the median of the noise figures of the
\* surviving rows of every full window, and raises when there is none.
C9_MedianOverAllWindows ==
    last_call.op = "calculate_noise_factor" =>
        IF AllWindowFigures(intensity_matrix) # {}
        THEN /\ last_call.exc = "none"
             /\ last_call.ret = [median_of |-> AllWindowFigures(intensity_matrix)]
        ELSE last_call.exc # "none"

(***************************************************************************)
(* correct_baseline                                                        *)
(***************************************************************************)
ChunkCap == 1500
DefaultLowChunk == 100
PolyOrder == 2

\* The clamps in another order: the upper one first, then the lower one.
ChunkSizeLowerLast(n, k, low) ==
    LET c0 == n \div k
        c1 == IF c0 > ChunkCap THEN ChunkCap ELSE c0
    IN  IF c1 < low THEN low ELSE c1

\* chunk_size once both if statements have run
ChunkSize(n, k, low) ==
    LET c0 == n \div k
        c1 == IF c0 < low THEN low ELSE c0
    IN  IF c1 > ChunkCap THEN ChunkCap ELSE c1

MinChunkSize(c) == c \div 2

NumChunks(n, c) == (n \div c) + (IF n % c # 0 THEN 1 ELSE 0)

\* The indices (from 0) that the slice [a:b] selects in an array of length n, in
\* order: a negative bound counts from the end, and both are clipped to 0..n.
SliceBound(a, n) == IF a < 0 THEN Max(a + n, 0) ELSE Min(a, n)

Slice(a, b, n) ==
    [j \in 1..Max(SliceBound(b, n) - SliceBound(a, n), 0) |-> SliceBound(a, n) + j - 1]

\* The start of the chunk before chunk i, as the merge of the tail takes it.
PrevChunkStartIdxOfSelf(i, c) == i * c

PrevChunkStartIdx(i, c) == (i - 1) * c

\* baseline(segment_intensities, deg): one value per sample of the segment.  The
\* value at position j is kept as the segment it was fitted over (src, the
\* indices of the profile) and j.
Baseline(src) == [j \in 1..Len(src) |-> [src |-> src, pos |-> j, clamped |-> FALSE]]

\* np.maximum(baseline_values, 0)
ClampAll(values) == [idx \in DOMAIN values |-> [values[idx] EXCEPT !.clamped = TRUE]]

\* baseline_values[a:b] = bl: <<exception, the array afterwards>>
SliceAssign(values, a, b, n, bl) ==
    LET target == Slice(a, b, n)
    IN  IF Len(bl) # Len(target) /\ Len(bl) # 1 THEN <<"ValueError", values>>
        ELSE <<"none",
               [idx \in DOMAIN values \cup {target[j] : j \in 1..Len(target)} |->
                   IF \E j \in 1..Len(target) : target[j] = idx
                   THEN bl[IF Len(bl) = 1 THEN 1
                           ELSE CHOOSE j \in 1..Len(target) : target[j] = idx]
                   ELSE values[idx]]>>

\* One pass of the loop over the chunks, for i: <<exception, baseline_values afterwards>>
ChunkPass(values, n, c, i) ==
    LET start_idx == i * c
        end_idx == IF (i + 1) * c > n THEN n ELSE (i + 1) * c
        segment == Slice(start_idx, end_idx, n)
        merge == /\ i = NumChunks(n, c) - 1
                 /\ Len(segment) < MinChunkSize(c)
                 /\ start_idx < n                     \* prev_chunk_end_idx < len(intensity_array)
        prev_start == PrevChunkStartIdx(i, c)
        combined == Slice(prev_start, start_idx, n) \o segment
        stored == IF merge
                  THEN SliceAssign(values, prev_start, end_idx, n, Baseline(combined))
                  ELSE SliceAssign(values, start_idx, end_idx, n, Baseline(segment))
    IN  IF stored[1] # "none" THEN stored ELSE <<"none", ClampAll(stored[2])>>

\* sg_window_length(chunk_size)
SgWindowLength(c) == IF (c \div 10) % 2 = 0 THEN (c \div 10) + 1 ELSE c \div 10

\* savgol_filter(baseline_values, window_length = wl, polyorder = 2): the filter
\* refuses a window longer than the array and a window not longer than the order.
SavgolFilter(n, wl) ==
    IF wl > n \/ PolyOrder >= wl THEN <<"ValueError", <<>>>>
    ELSE <<"none",
           [idx \in 0..(n - 1) |->
               [smoothed_over |-> Min(Max(idx - wl \div 2, 0), n - wl)]]>>

\* Lines 85-101: the empty baseline and the chunk size.
ComputeChunkSize ==
    /\ bl_pc = "call"
    /\ chunk_size' = ChunkSize(n_len, chunks, low_chunk)
    /\ baseline_values' = <<>>
    /\ i_chunk' = 0
    /\ bl_pc' = IF NumChunks(n_len, chunk_size') = 0 THEN "smooth" ELSE "loop"
    /\ UNCHANGED <<n_len, chunks, low_chunk, objVars, rpVars>>

\* Lines 104-143: the loop body for i = i_chunk.
ChunkStep ==
    /\ bl_pc = "loop"
    /\ LET res == ChunkPass(baseline_values, n_len, chunk_size, i_chunk)
       IN  /\ baseline_values' = res[2]
           /\ bl_pc' = IF res[1] # "none" THEN "loop_raised"
                       ELSE IF i_chunk + 1 = NumChunks(n_len, chunk_size) THEN "smooth"
                       ELSE "loop"
    /\ i_chunk' = i_chunk + 1
    /\ UNCHANGED <<n_len, chunks, low_chunk, chunk_size, objVars, rpVars>>

\* Lines 145-150: the smoothing and the return.
Smooth ==
    /\ bl_pc = "smooth"
    /\ LET res == SavgolFilter(n_len, SgWindowLength(chunk_size))
       IN  /\ bl_pc' = IF res[1] # "none" THEN "raised" ELSE "returned"
           /\ baseline_values' = IF res[1] # "none" THEN baseline_values ELSE res[2]
    /\ UNCHANGED <<n_len, chunks, low_chunk, chunk_size, i_chunk, objVars, rpVars>>

IdleObject ==
    /\ constructed = "none" /\ intensity_matrix = Unset /\ unique_mzs = Unset
    /\ spectra_metadata = Unset /\ noise_factor = Unset /\ abundance_threshold = Unset
    /\ last_call = Call("none", "none", None) /\ empty_truth_raises = FALSE

BaselineCalled(n, k, low) ==
    /\ bl_pc = "call" /\ n_len = n /\ chunks = k /\ low_chunk = low
    /\ chunk_size = 0 /\ i_chunk = 0 /\ baseline_values = <<>>

LowChunks == {1, DefaultLowChunk, ChunkCap - 1, ChunkCap, ChunkCap + 1, 2 * ChunkCap}

\* correct_baseline's chunk size over long profiles.
InitChunk ==
    /\ \E n \in 0..MaxWideLen, k \in 1..MaxChunks, low \in LowChunks : BaselineCalled(n, k, low)
    /\ IdleObject /\ IdleRepair

SpecChunk == InitChunk /\ [][ComputeChunkSize]_vars

\* correct_baseline's loop over short profiles.
InitBaseline ==
    /\ \E n \in 0..MaxProfileLen, k \in 1..MaxChunks, low \in 1..MaxLowChunk :
          BaselineCalled(n, k, low)
    /\ IdleObject /\ IdleRepair

NextBaseline == ComputeChunkSize \/ ChunkStep \/ Smooth

SpecBaseline == InitBaseline /\ [][NextBaseline]_vars

(***************************************************************************)
(* Claims about correct_baseline.                                          *)
(***************************************************************************)
ChunkSizeKnown == bl_pc \notin {"idle", "call"}

\* C7 as stated: the chunk size is max(low_chunk, min(1500, n // chunks)), so
\* it is never below low_chunk.
C7_ChunkSizeFloorLast ==
    ChunkSizeKnown =>
        /\ chunk_size = Max(low_chunk, Min(ChunkCap, n_len \div chunks))
        /\ chunk_size >= low_chunk

\* C7 as amended: the chunk size is min(1500, max(low_chunk, n // chunks)); it
\* is never below low_chunk when low_chunk is at most 1500, and it is 1500 when
\* low_chunk is above 1500.
C7_ChunkSizeCapLast ==
    ChunkSizeKnown =>
        /\ chunk_size = Min(ChunkCap, Max(low_chunk, n_len \div chunks))
        /\ low_chunk <= ChunkCap => chunk_size >= low_chunk
        /\ low_chunk > ChunkCap => chunk_size = ChunkCap

\* C7's case: low_chunk is above 1500.
C7_FloorAboveCap ==
    ChunkSizeKnown /\ low_chunk > ChunkCap /\ chunk_size = ChunkCap /\ n_len > 0

\* The block of C10's partition that holds index idx: chunks of c samples, the
\* last chunk joined to the one before it when it is shorter than c // 2.
TailIsShort(n, c) == n % c # 0 /\ n % c < c \div 2

ExpectedBlock(idx, n, c) ==
    IF TailIsShort(n, c) /\ idx \div c >= (n \div c) - 1
    THEN Slice(Max((n \div c) - 1, 0) * c, n, n)
    ELSE Slice((idx \div c) * c, Min((idx \div c + 1) * c, n), n)

\* C10: when the loop has ended, every index of the profile holds the value, at
\* that index, of the fit over the block of the partition that contains it; the
\* loop raises nothing and writes nowhere else.
C10_FilledFromPartition ==
    /\ bl_pc # "loop_raised"
    /\ bl_pc = "smooth" =>
          /\ DOMAIN baseline_values = 0..(n_len - 1)
          /\ \A idx \in 0..(n_len - 1) :
                /\ baseline_values[idx].src = ExpectedBlock(idx, n_len, chunk_size)
                /\ baseline_values[idx].src[baseline_values[idx].pos] = idx

\* C10's case: a short tail behind at least one whole chunk.
C10_TailMerged ==
    /\ bl_pc = "smooth"
    /\ TailIsShort(n_len, chunk_size)
    /\ n_len > chunk_size
    /\ baseline_values[n_len - 1].src = Slice(((n_len \div chunk_size) - 1) * chunk_size, n_len, n_len)

(***************************************************************************)
(* polynomial_correct_negative_values                                      *)
(*                                                                         *)
(* The array is a function of the indices 0..n-1 to rationals <<p, q>>,    *)
(* q > 0, in lowest terms; the least-squares fit is computed exactly.      *)
(***************************************************************************)
RECURSIVE Gcd(_, _)
Gcd(a, b) == IF b = 0 THEN a ELSE Gcd(b, a % b)

Rat(p, q) ==
    LET g == Gcd(Abs(p), Abs(q))
        sgn == IF q < 0 THEN -1 ELSE 1
    IN  <<(sgn * p) \div g, (sgn * q) \div g>>

RAdd(a, b) == Rat(a[1] * b[2] + b[1] * a[2], a[2] * b[2])
RSub(a, b) == Rat(a[1] * b[2] - b[1] * a[2], a[2] * b[2])
RMul(a, b) == Rat(a[1] * b[1], a[2] * b[2])
RDiv(a, b) == Rat(a[1] * b[2], a[2] * b[1])
RInt(k) == <<k, 1>>
Negative(a) == a[1] < 0

RECURSIVE RSum(_, _)
RSum(f, S) ==
    IF S = {} THEN RInt(0)
    ELSE LET x == CHOOSE x \in S : TRUE IN RAdd(f[x], RSum(f, S \ {x}))

\* np.polyval(np.polyfit(valid_x, valid_y, deg), x0) for deg 0 (the mean) and
\* deg 1 (the least-squares line); valid_x is a set of indices and y the array.
PolyFitAt(valid_x, y, deg, x0) ==
    LET N == RInt(Cardinality(valid_x))
        sx == RInt(SumSeq([j \in 1..Cardinality(valid_x) |->
                  CHOOSE x \in valid_x : Cardinality({u \in valid_x : u < x}) = j - 1]))
        sxx == RSum([x \in valid_x |-> RInt(x * x)], valid_x)
        sy == RSum(y, valid_x)
        sxy == RSum([x \in valid_x |-> RMul(RInt(x), y[x])], valid_x)
        slope == RDiv(RSub(RMul(N, sxy), RMul(sx, sy)), RSub(RMul(N, sxx), RMul(sx, sx)))
        icept == RDiv(RSub(sy, RMul(slope, sx)), N)
    IN  IF deg = 0 THEN RDiv(sy, N)
        ELSE RAdd(RMul(slope, RInt(x0)), icept)

\* negative_indices: np.where(array < 0)[0]
NegativeIndices(a) == {idx \in DOMAIN a : Negative(a[idx])}

\* clusters: the maximal runs of consecutive negative indices, as <<first, last>>,
\* in index order.
ClusterSet(a) ==
    {<<f, l>> \in NegativeIndices(a) \X NegativeIndices(a) :
        /\ f <= l
        /\ \A idx \in f..l : idx \in NegativeIndices(a)
        /\ (f - 1) \notin NegativeIndices(a)
        /\ (l + 1) \notin NegativeIndices(a)}

Clusters(a) ==
    [j \in 1..Cardinality(ClusterSet(a)) |->
        CHOOSE c \in ClusterSet(a) : Cardinality({d \in ClusterSet(a) : d[1] < c[1]}) = j - 1]

\* start_idx and end_idx of a cluster's window
WindowStartIdx(first, w) == Max(first - w, 0)

WindowEndIdx(last, w, n) == Max((last + 1) + w, n)

\* A where that takes the fit at every position of the window.
WhereAlways(cur, fit) == fit

\* np.where(array < 0, fit_line, array), at one position
WhereNegative(cur, fit) == IF Negative(cur) THEN fit ELSE cur

\* One pass of the loop over the clusters: [exc, array, read, trained, written]
ClusterPass(a, cluster, w, deg) ==
    LET n == Cardinality(DOMAIN a)
        start_idx == WindowStartIdx(cluster[1], w)
        end_idx == WindowEndIdx(cluster[2], w, n)
        segment == Slice(start_idx, end_idx, n)                 \* array[start_idx : end_idx]
        seg_idx == {segment[j] : j \in 1..Len(segment)}
        x_len == Max(end_idx - start_idx, 0)                    \* np.arange(start_idx, end_idx)
        valid_x == {idx \in seg_idx : ~Negative(a[idx])}        \* x[y >= 0]
    IN  IF x_len # Len(segment)                                 \* the mask is shorter than x
        THEN [exc |-> "IndexError", array |-> a, read |-> seg_idx, trained |-> {}, written |-> {}]
        ELSE IF Cardinality(valid_x) > deg
        THEN [exc |-> "none",
              array |-> [idx \in DOMAIN a |->
                            IF idx \in seg_idx
                            THEN WhereNegative(a[idx], PolyFitAt(valid_x, a, deg, idx))
                            ELSE a[idx]],
              read |-> seg_idx, trained |-> valid_x,
              written |-> {idx \in seg_idx : Negative(a[idx])}]
        ELSE [exc |-> "none", array |-> a, read |-> seg_idx, trained |-> {}, written |-> {}]

\* Lines 163-183: the negative indices and their clusters.
FindClusters ==
    /\ rp_pc = "call"
    /\ IF NegativeIndices(array) = {}
       THEN rp_pc' = "returned" /\ clusters' = <<>> /\ cluster_i' = 0
       ELSE rp_pc' = "loop" /\ clusters' = Clusters(array) /\ cluster_i' = 1
    /\ UNCHANGED <<array, array_in, window_size, degree, window, objVars, blVars>>

\* Lines 188-205: the loop body for clusters[cluster_i].
RepairCluster ==
    /\ rp_pc = "loop"
    /\ LET res == ClusterPass(array, clusters[cluster_i], window_size, degree)
       IN  /\ array' = res.array
           /\ window' = [cluster |-> cluster_i,
                         first |-> clusters[cluster_i][1], last |-> clusters[cluster_i][2],
                         before |-> array,
                         read |-> res.read, trained |-> res.trained, written |-> res.written]
           /\ rp_pc' = IF res.exc # "none" THEN "raised"
                       ELSE IF cluster_i = Len(clusters) THEN "returned"
                       ELSE "loop"
    /\ cluster_i' = cluster_i + 1
    /\ UNCHANGED <<array_in, window_size, degree, clusters, objVars, blVars>>

Values == {-1, 0, 1, 2}

Degrees == {0, 1}

InitRepair ==
    /\ \E n \in 0..MaxLen : \E a \in [0..(n - 1) -> Values] :
          /\ array = [idx \in 0..(n - 1) |-> RInt(a[idx])]
          /\ array_in = array
    /\ window_size \in 1..MaxWindow
    /\ degree \in Degrees
    /\ rp_pc = "call" /\ clusters = <<>> /\ cluster_i = 0 /\ window = NoWindow
    /\ IdleObject /\ IdleBaseline

NextRepair == FindClusters \/ RepairCluster

SpecRepair == InitRepair /\ [][NextRepair]_vars

(***************************************************************************)
(* Claims about polynomial_correct_negative_values.                        *)
(***************************************************************************)
ArrayLen == Cardinality(DOMAIN array_in)

ClusterRepaired == rp_pc \in {"loop", "returned", "raised"} /\ window.cluster > 0

\* The window C4 and C5 speak of: window_size samples before the first and after
\* the last index of the cluster, clipped to the array.
ClaimedWindow ==
    Max(window.first - window_size, 0)..Min(window.last + window_size, ArrayLen - 1)

\* C4: while a cluster is repaired, the samples read and the samples written
\* back are those of max(first - window_size, 0)..min(last + window_size, n - 1),
\* and no other.
C4_WindowClippedBothSides ==
    ClusterRepaired =>
        /\ window.read = ClaimedWindow
        /\ window.written \subseteq ClaimedWindow

\* C5: with degree 1, when the call returns, a cluster whose window held at
\* least degree + 1 non-negative samples has no negative value left at any of
\* its positions.
C5_NoNegativeLeftInCluster ==
    (ClusterRepaired /\ rp_pc = "returned" /\ degree = 1
        /\ Cardinality({idx \in ClaimedWindow : ~Negative(window.before[idx])}) >= degree + 1)
    => \A idx \in window.first..window.last : ~Negative(array[idx])

\* C6: a position whose input value is not negative holds that value in every
\* state of the call and after it; an input without negative values is returned
\* as it was.
C6_NonNegativeUntouched ==
    /\ \A idx \in DOMAIN array_in : ~Negative(array_in[idx]) => array[idx] = array_in[idx]
    /\ DOMAIN array = DOMAIN array_in
    /\ (rp_pc = "returned" /\ NegativeIndices(array_in) = {}) => array = array_in

\* C6's case: a cluster has been repaired in a window that also holds a positive
\* sample.
C6_RepairedBesideNonNegative ==
    /\ ClusterRepaired
    /\ window.written # {}
    /\ \E idx \in window.read : ~Negative(array_in[idx]) /\ array_in[idx] # RInt(0)
    /\ \E idx \in window.written : array[idx] # array_in[idx]
====
